---- MODULE Spec2Model ----
(***************************************************************************)
(* Model of simple_captcha_gui.py: the SimpleCaptchaSolver pipeline        *)
(* (construction, solve_captcha, the Tokenizer it decodes with) and the    *)
(* SimpleCaptchaGUI event handlers with the clipboard polling threads.     *)
(***************************************************************************)
EXTENDS Integers, Sequences, FiniteSets, TLC

(***************************************************************************)
(* Bounds of the model.                                                    *)
(***************************************************************************)
MaxRows == 3        \* longest logit matrix drawn for the decoder
MaxStrLen == 2      \* longest string drawn for the encode/decode round trip
MaxThreads == 1     \* monitor_loop threads created in one run
MaxSessions == 2    \* monitor_loop threads created when only the monitor is used
MaxQueue == 1       \* callbacks pending in the Tk event queue
MaxCalls == 2       \* solve_captcha calls made on one solver in a row
MaxDepth == 2       \* nesting of handlers inside modal dialogs

(***************************************************************************)
(* Fixed-point scale of probabilities: 1.0 is Scale.                       *)
(***************************************************************************)
Scale == 1000

(***************************************************************************)
(* SimpleCaptchaSolver.__init__: the configuration constants.  charset is  *)
(* the value of the raw string literal of line 31, character by            *)
(* character: in a raw literal a backslash stays in the string, so \" is   *)
(* the two characters \ and ", and \\ is two backslashes.  "grave" stands  *)
(* for the grave accent, which a TLA+ string cannot hold.                  *)
(***************************************************************************)
model_file == "captcha.onnx"
img_size == <<32, 128>>
charset ==
  <<
     "0", "1", "2", "3", "4", "5", "6", "7", "8", "9", "a", "b",
     "c", "d", "e", "f", "g", "h", "i", "j", "k", "l", "m", "n",
     "o", "p", "q", "r", "s", "t", "u", "v", "w", "x", "y", "z",
     "A", "B", "C", "D", "E", "F", "G", "H", "I", "J", "K", "L",
     "M", "N", "O", "P", "Q", "R", "S", "T", "U", "V", "W", "X",
     "Y", "Z", "!", "\\", "\"", "#", "$", "%", "&", "'", "(", ")",
     "*", "+", ",", "-", ".", "/", ":", ";", "<", "=", ">", "?",
     "@", "[", "\\", "\\", "]", "^", "_", "grave", "{", "|", "}", "~"
  >>

(***************************************************************************)
(* Generic helpers.                                                        *)
(***************************************************************************)
Range(s) == {s[i] : i \in 1..Len(s)}

RECURSIVE Pow2(_)
Pow2(n) == IF n <= 0 THEN 1 ELSE 2 * Pow2(n - 1)

RECURSIVE SumRange(_, _, _)
SumRange(f, lo, hi) ==
  IF lo > hi THEN 0
  ELSE IF lo = hi THEN f[lo]
  ELSE LET mid == (lo + hi) \div 2
       IN  SumRange(f, lo, mid) + SumRange(f, mid + 1, hi)

RECURSIVE SeqsUpTo(_, _)
SeqsUpTo(S, n) ==
  IF n = 0 THEN {<<>>}
  ELSE LET shorter == SeqsUpTo(S, n - 1)
       IN  shorter \cup {Append(s, x) : s \in {t \in shorter : Len(t) = n - 1}, x \in S}

(***************************************************************************)
(* Python values: None, a str, and the truth value `if solution:` takes.   *)
(***************************************************************************)
NoneVal == [tag |-> "None"]
StrVal(s) == [tag |-> "str", text |-> s]
Truthy(v) == v.tag = "str" /\ Len(v.text) > 0

(***************************************************************************)
(* Tokenizer (tokenizer_base.py).  The vocabulary is the END token, the    *)
(* characters of the charset in order, then START and PAD: a character at  *)
(* position i of the charset has token id i, offset by the reserved END    *)
(* token at id 0.                                                          *)
(***************************************************************************)
EOS == "[E]"
BOS == "[B]"
PAD == "[P]"

Tokenizer(cs) ==
  LET itos == <<EOS>> \o cs \o <<BOS, PAD>>
  IN  [itos   |-> itos,
       eos_id |-> 0,
       bos_id |-> Len(cs) + 1,
       pad_id |-> Len(cs) + 2]

VocabSize(tok) == Len(tok.itos)
IsCharId(tok, id) == id >= 1 /\ id <= Len(tok.itos) - 3
ItoS(tok, id) == tok.itos[id + 1]
StoI(tok, c) == CHOOSE id \in 1..(Len(tok.itos) - 3) : tok.itos[id + 1] = c

(* encode: each character to its token id; UnknownCharacterError otherwise *)
encode(tok, text) ==
  IF \E i \in 1..Len(text) : text[i] \notin {ItoS(tok, id) : id \in 1..(Len(tok.itos) - 3)}
  THEN [exc |-> "UnknownCharacterError", ids |-> <<>>]
  ELSE [exc |-> "none", ids |-> [i \in 1..Len(text) |-> StoI(tok, text[i])]]

RECURSIVE MaxRange(_, _, _)
MaxRange(f, lo, hi) ==
  IF lo = hi THEN f[lo]
  ELSE LET mid == (lo + hi) \div 2
           a   == MaxRange(f, lo, mid)
           b   == MaxRange(f, mid + 1, hi)
       IN  IF a >= b THEN a ELSE b

(* greedy selection of one position: the first index of the largest value; *)
(* a row is indexed 0..n-1                                                 *)
ArgMax(row) ==
  LET n == Cardinality(DOMAIN row)
      m == MaxRange(row, 0, n - 1)
  IN  CHOOSE i \in 0..(n - 1) : row[i] = m /\ \A j \in 0..(i - 1) : row[j] # m

MaxIds(dist) == [p \in 1..Len(dist) |-> ArgMax(dist[p])]
MaxProbs(dist) ==
  [p \in 1..Len(dist) |-> LET row == dist[p] IN MaxRange(row, 0, Cardinality(DOMAIN row) - 1)]

(* position of the first END in a token sequence, Len + 1 when there is none *)
EosIndex(tok, ids) ==
  IF \E p \in 1..Len(ids) : ids[p] = tok.eos_id
  THEN CHOOSE p \in 1..Len(ids) :
         ids[p] = tok.eos_id /\ \A q \in 1..(p - 1) : ids[q] # tok.eos_id
  ELSE Len(ids) + 1

RECURSIVE Product(_)
Product(ps) ==
  IF Len(ps) = 0 THEN Scale
  ELSE (ps[1] * Product(Tail(ps))) \div Scale

(***************************************************************************)
(* decode of one batch item: argmax per position, tokens consumed up to    *)
(* and including END, END itself left out of the string, every token       *)
(* before END mapped to its character; a token before END that is not a    *)
(* character is a DecodeFailure.  The confidence is the product of the     *)
(* maximal probabilities of the consumed positions.                        *)
(***************************************************************************)
decode(tok, dist) ==
  LET ids      == MaxIds(dist)
      mx       == MaxProbs(dist)
      e        == EosIndex(tok, ids)
      kept     == SubSeq(ids, 1, e - 1)
      consumed == IF e <= Len(ids) THEN e ELSE Len(ids)
      probs    == SubSeq(mx, 1, consumed)
  IN  IF \E p \in 1..Len(kept) : ~IsCharId(tok, kept[p])
      THEN [exc |-> "DecodeFailure", text |-> <<>>, probs |-> <<>>,
            consumed |-> 0, confidence |-> 0]
      ELSE [exc |-> "none",
            text |-> [p \in 1..Len(kept) |-> ItoS(tok, kept[p])],
            probs |-> probs,
            consumed |-> consumed,
            confidence |-> Product(probs)]

(***************************************************************************)
(* torch.tensor(logits).softmax(-1), in fixed point: logits are integers   *)
(* read as powers of two, a probability is a share of Scale.               *)
(***************************************************************************)
SoftmaxRow(row) ==
  LET n == Cardinality(DOMAIN row)
      w == [i \in DOMAIN row |-> Pow2(row[i])]
      z == SumRange(w, 0, n - 1)
  IN  [i \in DOMAIN row |-> (w[i] * Scale) \div z]

(* softmax(0): over the batch axis, of size 1, every entry becomes 1.0 *)
softmax_Axis0(logits) ==
  [p \in 1..Len(logits) |-> [i \in DOMAIN logits[p] |-> Scale]]

softmax(logits) == [p \in 1..Len(logits) |-> SoftmaxRow(logits[p])]

(***************************************************************************)
(* The environment: what is on disk under model_file, what the clipboard   *)
(* holds (0 is "no image": empty or text; 1..NClipImages are images), the  *)
(* images files and screen regions hold, and the scores the loaded model   *)
(* gives an image.  The model is an opaque deterministic function of the   *)
(* tensor; here image 1 reads "ab", image 2 reads as an immediate END, any *)
(* further image puts PAD before END.                                      *)
(***************************************************************************)
NImages == 2
NClipImages == 1
Images == 1..NImages
ClipValues == 0..NClipImages
Artifacts == {"missing", "unreadable", "invalid", "unloadable", "ok"}
Faults == {"none", "convert", "transform", "run", "softmax", "decode"}

LogitRow(n, t, hi) == [i \in 0..(n - 1) |-> IF i = t THEN hi ELSE 0]

ImageTokens(n, img) ==
  CASE img = 1 -> <<11, 12, 0, n - 1>>
    [] img = 2 -> <<0, n - 1, n - 1>>
    [] OTHER   -> <<n - 1, 11, 0>>

(***************************************************************************)
(* SimpleCaptchaSolver._get_transform / the transform applied to an image: *)
(* RGB, resized to img_size whatever the input size, normalised; with the  *)
(* unsqueeze(0) of solve_captcha the tensor is 1 x 3 x 32 x 128.           *)
(***************************************************************************)
get_transform(size) == [resize |-> size, interpolation |-> "BICUBIC", mean |-> "0.5", std |-> "0.5"]
ApplyTransform(tr, img) == [shape |-> <<1, 3, tr.resize[1], tr.resize[2]>>, of |-> img]

(* ort_session.run(None, ort_inputs)[0]: one row of scores per position *)
ort_run(session, n, x) ==
  LET toks == ImageTokens(n, x.of)
  IN  [p \in 1..Len(toks) |-> LogitRow(n, toks[p], 10 - p)]

(***************************************************************************)
(* SimpleCaptchaSolver._initialize_model: onnx.load, check_model, then the *)
(* InferenceSession; the first step that fails raises.                     *)
(***************************************************************************)
(* an _initialize_model without the call of onnx.checker.check_model *)
initialize_model_NoCheck(art) ==
  CASE art = "unreadable" -> [exc |-> "LoadError", loaded |-> FALSE, checked |-> FALSE,
                              transform |-> "unset", ort_session |-> "unset"]
    [] art = "unloadable" -> [exc |-> "SessionError", loaded |-> TRUE, checked |-> FALSE,
                              transform |-> "unset", ort_session |-> "unset"]
    [] OTHER              -> [exc |-> "none", loaded |-> TRUE, checked |-> FALSE,
                              transform |-> get_transform(img_size),
                              ort_session |-> "session"]

initialize_model(art) ==
  CASE art = "unreadable" -> [exc |-> "LoadError", loaded |-> FALSE, checked |-> FALSE,
                              transform |-> "unset", ort_session |-> "unset"]
    [] art = "invalid"    -> [exc |-> "ValidationError", loaded |-> TRUE, checked |-> FALSE,
                              transform |-> "unset", ort_session |-> "unset"]
    [] art = "unloadable" -> [exc |-> "SessionError", loaded |-> TRUE, checked |-> TRUE,
                              transform |-> "unset", ort_session |-> "unset"]
    [] OTHER              -> [exc |-> "none", loaded |-> TRUE, checked |-> TRUE,
                              transform |-> get_transform(img_size),
                              ort_session |-> "session"]

(***************************************************************************)
(* SimpleCaptchaSolver.__init__: the constants, the existence check, the   *)
(* Tokenizer, initialize_model.  exc is the exception that leaves the     *)
(* constructor ("none" when it returns), self the object as far as it was  *)
(* built.                                                                  *)
(***************************************************************************)
SolverInitWith(art, cs) ==
  LET base == [model_file |-> model_file, img_size |-> img_size, charset |-> charset,
               exists_checked |-> TRUE, loaded |-> FALSE, checked |-> FALSE,
               tokenizer |-> "unset", transform |-> "unset", ort_session |-> "unset"]
      m    == initialize_model(art)
  IN  IF art = "missing"
      THEN [exc |-> "FileNotFoundError", self |-> base]
      ELSE [exc |-> m.exc,
            self |-> [base EXCEPT !.tokenizer = Tokenizer(cs),
                                  !.loaded = m.loaded, !.checked = m.checked,
                                  !.transform = m.transform,
                                  !.ort_session = m.ort_session]]

(* a constructor that builds the Tokenizer from the digits only *)
SolverInit_Digits(art) == SolverInitWith(art, SubSeq(charset, 1, 10))

SolverInit(art) == SolverInitWith(art, charset)

(***************************************************************************)
(* solve_captcha.  Raises is the exception raised inside the               *)
(* try block, if any: None has no convert, the environment may fail any    *)
(* stage, decode fails on a token that is no character.  Catches is the    *)
(* except clause, ResultOf the value taken from decode's answer.           *)
(***************************************************************************)
Pipeline(self, img) ==
  LET x      == ApplyTransform(self.transform, img)
      logits == ort_run(self.ort_session, VocabSize(self.tokenizer), x)
      probs  == softmax(logits)
  IN  decode(self.tokenizer, probs)

(* the pipeline is a function of the solver's configuration and the image; *)
(* for the configuration the constructor builds it is tabulated once       *)
Built == SolverInit("ok").self
PipelineTable == [img \in Images |-> Pipeline(Built, img)]
PipelineOf(self, img) ==
  IF self = Built THEN PipelineTable[img] ELSE Pipeline(self, img)

Raises(img, fault, d) ==
  IF img = 0 THEN "AttributeError"
  ELSE IF fault # "none" THEN fault
  ELSE d.exc

(* an except clause that lets AttributeError through *)
Catches_Narrow(exc) == exc # "AttributeError"

Catches(exc) == TRUE

(* a solve_captcha that returns the pair of decode's text and confidence *)
ResultOf_Pair(d) == [tag |-> "pair", text |-> d.text, confidence |-> d.confidence]

ResultOf(d) == StrVal(d.text)

solve_captcha(self, img, fault) ==
  LET d   == IF img = 0 \/ fault # "none" THEN [exc |-> "none"] ELSE PipelineOf(self, img)
      exc == Raises(img, fault, d)
      ran == img # 0 /\ fault \notin {"convert", "transform"}
  IN  IF exc = "none"
      THEN [ret |-> ResultOf(d), raised |-> "none", escaped |-> FALSE,
            ran |-> ran, probs |-> d.probs]
      ELSE IF Catches(exc)
      THEN [ret |-> NoneVal, raised |-> exc, escaped |-> FALSE, ran |-> ran, probs |-> <<>>]
      ELSE [ret |-> NoneVal, raised |-> exc, escaped |-> TRUE, ran |-> ran, probs |-> <<>>]

(***************************************************************************)
(* State.                                                                  *)
(***************************************************************************)
VARIABLES
  app,           \* "boot", "init", "running", "closed", "exited"
  artifact,      \* what is on disk under model_file
  solver,        \* SimpleCaptchaGUI.solver: [bound, self]
  solver_ready,  \* SimpleCaptchaGUI.solver_ready
  ctor_exc,      \* the exception SimpleCaptchaSolver() left the GUI with
  buttons,       \* state of clipboard_btn, monitor_btn, file_btn, screen_btn
  monitoring,    \* SimpleCaptchaGUI.monitoring
  clipboard,     \* the system clipboard, as ImageGrab.grabclipboard reads it
  threads,       \* the monitor_loop threads: [pc, last, cur]
  afterq,        \* callbacks registered with root.after(0, ...)
  ui,            \* the UI thread's stack of running handlers
  selecting,     \* the screen selection window is open, root withdrawn
  calls,         \* the solve_captcha calls made on the solver directly
  tk_in,         \* input drawn for the Tokenizer
  tk_out         \* what the Tokenizer made of it

tokVars == <<tk_in, tk_out>>
guiVars == <<app, artifact, solver, solver_ready, ctor_exc, buttons,
             monitoring, clipboard, threads, afterq, ui, selecting,
             calls>>
vars == <<app, artifact, solver, solver_ready, ctor_exc, buttons,
          monitoring, clipboard, threads, afterq, ui, selecting,
          calls, tk_in, tk_out>>

Unbound == [bound |-> FALSE, self |-> "unset"]

GuiBoot ==
  /\ app = "boot"
  /\ artifact \in Artifacts
  /\ solver = Unbound
  /\ solver_ready = FALSE
  /\ ctor_exc = "none"
  /\ buttons = "unset"
  /\ monitoring = FALSE
  /\ clipboard \in ClipValues
  /\ threads = <<>>
  /\ afterq = <<>>
  /\ ui = <<>>
  /\ selecting = FALSE
  /\ calls = <<>>

Init ==
  /\ GuiBoot
  /\ tk_in = [kind |-> "none"]
  /\ tk_out = [done |-> FALSE]

(***************************************************************************)
(* main: the required files are checked before the GUI is built.           *)
(***************************************************************************)
Main ==
  /\ app = "boot"
  /\ app' = IF artifact = "missing" THEN "exited" ELSE "init"
  /\ UNCHANGED <<artifact, solver, solver_ready, ctor_exc, buttons,
                 monitoring, clipboard, threads, afterq, ui, selecting,
                 calls>>
  /\ UNCHANGED tokVars

(* the file is removed between main's check and the constructor's *)
ArtifactLost ==
  /\ app = "init"
  /\ artifact # "missing"
  /\ artifact' = "missing"
  /\ UNCHANGED <<app, solver, solver_ready, ctor_exc, buttons, monitoring,
                 clipboard, threads, afterq, ui, selecting, calls>>
  /\ UNCHANGED tokVars

(***************************************************************************)
(* SimpleCaptchaGUI.__init__ with setup_ui: the solver is built inside a   *)
(* try; on an exception solver stays unbound and solver_ready is False;    *)
(* setup_ui disables the four trigger buttons when the solver is not       *)
(* ready.                                                                  *)
(***************************************************************************)
setup_ui(ready) == IF ready THEN "normal" ELSE "disabled"

GuiInit ==
  /\ app = "init"
  /\ LET c == SolverInit(artifact)
     IN  /\ ctor_exc' = c.exc
         /\ solver' = IF c.exc = "none" THEN [bound |-> TRUE, self |-> c.self] ELSE Unbound
         /\ solver_ready' = (c.exc = "none")
         /\ buttons' = setup_ui(c.exc = "none")
  /\ app' = "running"
  /\ UNCHANGED <<artifact, monitoring, clipboard, threads, afterq, ui,
                 selecting, calls>>
  /\ UNCHANGED tokVars

(* the user, or another program, copies something else to the clipboard *)
EnvCopy(v) ==
  /\ app = "running"
  /\ v # clipboard
  /\ clipboard' = v
  /\ UNCHANGED <<app, artifact, solver, solver_ready, ctor_exc, buttons,
                 monitoring, threads, afterq, ui, selecting, calls>>
  /\ UNCHANGED tokVars

(***************************************************************************)
(* Where the UI thread is.  Handlers run to completion on the UI thread;   *)
(* it takes the next event only in mainloop or inside a modal dialog       *)
(* (messagebox, file dialog), never inside solve_captcha.  The buttons of  *)
(* the root window take clicks only in mainloop with the root shown.       *)
(***************************************************************************)
Top == ui[Len(ui)]
Push(f) == Append(ui, f)
Pop == SubSeq(ui, 1, Len(ui) - 1)
NotAssigned == [tag |-> "unbound"]
Frame(h, pc, img, msg) ==
  [h |-> h, pc |-> pc, img |-> img, msg |-> msg, solution |-> NotAssigned]
Shown(h, msg, solution) ==
  [h |-> h, pc |-> "dialog", img |-> 0, msg |-> msg, solution |-> solution]

(* a UI thread that also takes events inside solve_captcha *)
AtEventLoop_Reentrant == app = "running"

AtEventLoop ==
  /\ app = "running"
  /\ IF ui = <<>> THEN TRUE ELSE Top.pc \in {"dialog", "filedialog"}

AtMainLoop == app = "running" /\ ui = <<>> /\ ~selecting

InFlight == Cardinality({i \in 1..Len(ui) : ui[i].pc = "solve"})

(***************************************************************************)
(* What a handler shows for the value solve_captcha returned: the branch   *)
(* `if solution:` and its else.  auto_solve_clipboard has no else branch.  *)
(***************************************************************************)
SuccessMsg(h) == IF h = "auto" THEN "Auto-Solved!" ELSE "Success!"
FailMsg(h) ==
  CASE h = "clip" -> "Could not solve this CAPTCHA"
    [] h = "file" -> "Could not solve this image"
    [] OTHER      -> "Could not solve selected region"
ExcMsg(h) == IF h = "clip" THEN "Error processing clipboard" ELSE "Error loading image"

(* a solve_captcha that drops the session when a request fails *)
SelfAfterSolve_Reset(self, r) ==
  IF r.raised # "none" THEN [self EXCEPT !.ort_session = "unset"] ELSE self

(* solve_captcha assigns no attribute of self *)
SelfAfterSolve(self, r) == self

(***************************************************************************)
(* solve_from_clipboard, up to its call of solve_captcha.                  *)
(***************************************************************************)
SolveFromClipboard ==
  /\ AtMainLoop
  /\ buttons = "normal"
  /\ \E grab_ok \in BOOLEAN :
       IF ~grab_ok \/ (clipboard # 0 /\ ~solver.bound)
       THEN ui' = Push(Frame("clip", "dialog", 0, ExcMsg("clip")))
       ELSE IF clipboard = 0
       THEN ui' = Push(Frame("clip", "dialog", 0, "No Image"))
       ELSE ui' = Push(Frame("clip", "solve", clipboard, ""))
  /\ UNCHANGED <<app, artifact, solver, solver_ready, ctor_exc, buttons,
                 monitoring, clipboard, threads, afterq, selecting, calls>>
  /\ UNCHANGED tokVars

(***************************************************************************)
(* load_image_file: the file dialog, then Image.open and solve_captcha.    *)
(* The choice is -1 (cancelled), 0 (a file Image.open rejects) or an image.*)
(***************************************************************************)
LoadImageFile ==
  /\ AtMainLoop
  /\ buttons = "normal"
  /\ ui' = Push(Frame("file", "filedialog", 0, ""))
  /\ UNCHANGED <<app, artifact, solver, solver_ready, ctor_exc, buttons,
                 monitoring, clipboard, threads, afterq, selecting, calls>>
  /\ UNCHANGED tokVars

FileChosen(c) ==
  /\ app = "running"
  /\ ui # <<>>
  /\ Top.pc = "filedialog"
  /\ IF c = -1
     THEN ui' = Pop
     ELSE IF c = 0 \/ ~solver.bound
     THEN ui' = Append(Pop, Frame("file", "dialog", 0, ExcMsg("file")))
     ELSE ui' = Append(Pop, Frame("file", "solve", c, ""))
  /\ UNCHANGED <<app, artifact, solver, solver_ready, ctor_exc, buttons,
                 monitoring, clipboard, threads, afterq, selecting, calls>>
  /\ UNCHANGED tokVars

(***************************************************************************)
(* capture_screen_region: the instructions dialog; when it is closed the   *)
(* root is withdrawn and start_screen_selection opens the selection window.*)
(* end_selection crops the screenshot and solves when the region is more   *)
(* than 10 pixels in both directions.                                      *)
(***************************************************************************)
SelSizes == {10, 11}

CaptureScreenRegion ==
  /\ AtMainLoop
  /\ buttons = "normal"
  /\ ui' = Push(Frame("screen", "dialog", 0, "Screen Capture"))
  /\ UNCHANGED <<app, artifact, solver, solver_ready, ctor_exc, buttons,
                 monitoring, clipboard, threads, afterq, selecting, calls>>
  /\ UNCHANGED tokVars

EndSelection(w, h) ==
  /\ app = "running"
  /\ ui = <<>>
  /\ selecting
  /\ selecting' = FALSE
  /\ IF w > 10 /\ h > 10 /\ solver.bound
     THEN \E cropped \in Images : ui' = Push(Frame("screen", "solve", cropped, ""))
     ELSE ui' = ui
  /\ UNCHANGED <<app, artifact, solver, solver_ready, ctor_exc, buttons,
                 monitoring, clipboard, threads, afterq, calls>>
  /\ UNCHANGED tokVars

CancelSelection ==
  /\ app = "running"
  /\ ui = <<>>
  /\ selecting
  /\ selecting' = FALSE
  /\ UNCHANGED <<app, artifact, solver, solver_ready, ctor_exc, buttons,
                 monitoring, clipboard, threads, afterq, ui, calls>>
  /\ UNCHANGED tokVars

(***************************************************************************)
(* A modal dialog is closed: the handler that opened it goes on to its     *)
(* end.                                                                    *)
(***************************************************************************)
DialogClose ==
  /\ app = "running"
  /\ ui # <<>>
  /\ Top.pc = "dialog"
  /\ ui' = Pop
  /\ selecting' = IF Top.msg = "Screen Capture" THEN TRUE ELSE selecting
  /\ UNCHANGED <<app, artifact, solver, solver_ready, ctor_exc, buttons,
                 monitoring, clipboard, threads, afterq, calls>>
  /\ UNCHANGED tokVars

(***************************************************************************)
(* solve_captcha returns to the handler that called it, and the handler    *)
(* goes on: a truthy solution is shown, copied to the clipboard (which     *)
(* then holds text, no image) and announced in a dialog; otherwise the     *)
(* manual handlers show an error dialog.  An exception leaving             *)
(* solve_captcha would reach the handler's own except clause.  While its   *)
(* dialog is open the handler holds the returned value in `solution`.      *)
(***************************************************************************)
SolveReturn(fault) ==
  /\ app = "running"
  /\ ui # <<>>
  /\ Top.pc = "solve"
  /\ LET f == Top
         r == solve_captcha(solver.self, f.img, fault)
     IN  /\ solver' = [solver EXCEPT !.self = SelfAfterSolve(solver.self, r)]
         /\ IF r.escaped
            THEN /\ ui' = IF f.h \in {"clip", "file"}
                          THEN Append(Pop, Frame(f.h, "dialog", 0, ExcMsg(f.h)))
                          ELSE Pop
                 /\ UNCHANGED clipboard
            ELSE IF Truthy(r.ret)
            THEN /\ clipboard' = 0
                 /\ ui' = Append(Pop, Shown(f.h, SuccessMsg(f.h), r.ret))
            ELSE /\ ui' = IF f.h = "auto" THEN Pop
                          ELSE Append(Pop, Shown(f.h, FailMsg(f.h), r.ret))
                 /\ UNCHANGED clipboard
  /\ UNCHANGED <<app, artifact, solver_ready, ctor_exc, buttons, monitoring,
                 threads, afterq, selecting, calls>>
  /\ UNCHANGED tokVars

(***************************************************************************)
(* toggle_monitoring, start_monitoring, stop_monitoring.  Every start      *)
(* creates a new daemon thread running monitor_loop; stop only clears the  *)
(* flag.                                                                   *)
(***************************************************************************)
NewThread == [pc |-> "loop", last |-> 0, cur |-> 0]

start_monitoring_within(n) ==
  /\ Len(threads) < n
  /\ monitoring' = TRUE
  /\ threads' = Append(threads, NewThread)

start_monitoring == start_monitoring_within(MaxThreads)

stop_monitoring ==
  /\ monitoring' = FALSE
  /\ threads' = threads

toggle_monitoring_within(n) ==
  /\ AtMainLoop
  /\ buttons = "normal"
  /\ IF ~monitoring THEN start_monitoring_within(n) ELSE stop_monitoring
  /\ UNCHANGED <<app, artifact, solver, solver_ready, ctor_exc, buttons,
                 clipboard, afterq, ui, selecting, calls>>
  /\ UNCHANGED tokVars

toggle_monitoring == toggle_monitoring_within(MaxThreads)

(***************************************************************************)
(* monitor_loop, one thread t.  LoopCheck is the test of `while            *)
(* self.monitoring`; LoopBody is one pass: grab the clipboard, register    *)
(* the callback for a new image, remember it, sleep; LoopError is the pass *)
(* in which grabclipboard raises.  The lambda registered with root.after   *)
(* closes over the loop's variable current_clipboard, so the queue holds   *)
(* the thread whose variable the callback will read, and with it the image *)
(* that was detected as new when the callback was registered.  When the    *)
(* loop ends last_clipboard is gone with it.                               *)
(***************************************************************************)
Callback(t, detected) == [thread |-> t, detected |-> detected]

LoopCheck(t) ==
  /\ app = "running"
  /\ threads[t].pc = "loop"
  /\ threads' = [threads EXCEPT ![t] =
                   IF monitoring THEN [@ EXCEPT !.pc = "body"]
                   ELSE [@ EXCEPT !.pc = "done", !.last = 0]]
  /\ UNCHANGED <<app, artifact, solver, solver_ready, ctor_exc, buttons,
                 monitoring, clipboard, afterq, ui, selecting, calls>>
  /\ UNCHANGED tokVars

LoopBody(t) ==
  /\ app = "running"
  /\ threads[t].pc = "body"
  /\ LET current_clipboard == clipboard
         fresh == current_clipboard # 0 /\ current_clipboard # threads[t].last
     IN  /\ fresh => Len(afterq) < MaxQueue
         /\ afterq' = IF fresh THEN Append(afterq, Callback(t, current_clipboard))
                       ELSE afterq
         /\ threads' = [threads EXCEPT ![t] =
                          [pc   |-> "loop",
                           last |-> IF fresh THEN current_clipboard ELSE threads[t].last,
                           cur  |-> current_clipboard]]
  /\ UNCHANGED <<app, artifact, solver, solver_ready, ctor_exc, buttons,
                 monitoring, clipboard, ui, selecting, calls>>
  /\ UNCHANGED tokVars

LoopError(t) ==
  /\ app = "running"
  /\ threads[t].pc = "body"
  /\ threads' = [threads EXCEPT ![t].pc = "loop"]
  /\ UNCHANGED <<app, artifact, solver, solver_ready, ctor_exc, buttons,
                 monitoring, clipboard, afterq, ui, selecting, calls>>
  /\ UNCHANGED tokVars

(***************************************************************************)
(* The UI thread runs a callback registered with root.after: the lambda    *)
(* reads current_clipboard of its loop now and calls auto_solve_clipboard, *)
(* which displays the image and calls solve_captcha.                       *)
(***************************************************************************)
RunCallback ==
  /\ AtEventLoop
  /\ afterq # <<>>
  /\ Len(ui) < MaxDepth
  /\ afterq' = Tail(afterq)
  /\ LET img == threads[Head(afterq).thread].cur
     IN  IF solver.bound
         THEN ui' = Push(Frame("auto", "solve", img, ""))
         ELSE ui' = ui
  /\ UNCHANGED <<app, artifact, solver, solver_ready, ctor_exc, buttons,
                 monitoring, clipboard, threads, selecting, calls>>
  /\ UNCHANGED tokVars

(***************************************************************************)
(* on_closing: stop_monitoring, then root.destroy ends mainloop and with   *)
(* it the process; the daemon threads end with the process.                *)
(***************************************************************************)
on_closing ==
  /\ AtMainLoop
  /\ monitoring' = FALSE
  /\ threads' = [t \in 1..Len(threads) |-> [pc |-> "done", last |-> 0, cur |-> 0]]
  /\ afterq' = <<>>
  /\ app' = "closed"
  /\ UNCHANGED <<artifact, solver, solver_ready, ctor_exc, buttons,
                 clipboard, ui, selecting, calls>>
  /\ UNCHANGED tokVars

Next ==
  \/ Main
  \/ ArtifactLost
  \/ GuiInit
  \/ \E v \in ClipValues : EnvCopy(v)
  \/ SolveFromClipboard
  \/ LoadImageFile
  \/ \E c \in -1..NImages : FileChosen(c)
  \/ CaptureScreenRegion
  \/ \E w \in SelSizes, h \in SelSizes : EndSelection(w, h)
  \/ CancelSelection
  \/ DialogClose
  \/ \E fault \in Faults : SolveReturn(fault)
  \/ toggle_monitoring
  \/ \E t \in 1..Len(threads) : LoopCheck(t)
  \/ \E t \in 1..Len(threads) : LoopBody(t)
  \/ \E t \in 1..Len(threads) : LoopError(t)
  \/ RunCallback
  \/ on_closing

Spec == Init /\ [][Next]_vars

(***************************************************************************)
(* The decoding stage of solve_captcha on its own (lines 74-78): softmax,  *)
(* Tokenizer.decode, preds[0], applied to logit matrices drawn from a      *)
(* bounded family, and the Tokenizer's encode/decode round trip applied to *)
(* strings over the charset.  A drawn row is <<t, hi>>: score hi at token  *)
(* t, 0 elsewhere.                                                         *)
(***************************************************************************)
TokSample == {0, 11, 64, 97, 98}
HiSample == {3, 6}
CharSample == {"0", "a", "\\", "~"}

RowSeqs == SeqsUpTo(TokSample \X HiSample, MaxRows)
Texts == SeqsUpTo(Range(charset), 1) \cup SeqsUpTo(CharSample, MaxStrLen)

OneHot(n, t) == [i \in 0..(n - 1) |-> IF i = t THEN Scale ELSE 0]

TokInit ==
  /\ tk_in \in {[kind |-> "logits", rows |-> r, text |-> <<>>] : r \in RowSeqs \ {<<>>}}
          \cup {[kind |-> "text", rows |-> <<>>, text |-> s] : s \in Texts}
  /\ tk_out = [done |-> FALSE]
  /\ app = "exited"
  /\ artifact = "ok"
  /\ solver = [bound |-> TRUE, self |-> Built]
  /\ solver_ready = TRUE
  /\ ctor_exc = "none"
  /\ buttons = "normal"
  /\ monitoring = FALSE
  /\ clipboard = 0
  /\ threads = <<>>
  /\ afterq = <<>>
  /\ ui = <<>>
  /\ selecting = FALSE
  /\ calls = <<>>

TokDecode ==
  /\ tk_in.kind = "logits"
  /\ ~tk_out.done
  /\ LET tok    == solver.self.tokenizer
         n      == VocabSize(tok)
         logits == [p \in 1..Len(tk_in.rows) |-> LogitRow(n, tk_in.rows[p][1], tk_in.rows[p][2])]
         probs  == softmax(logits)
         d      == decode(tok, probs)
     IN  tk_out' = [done |-> TRUE, exc |-> d.exc,
                    ret |-> IF d.exc = "none" THEN ResultOf(d) ELSE NoneVal,
                    probs |-> d.probs, confidence |-> d.confidence]
  /\ UNCHANGED <<tk_in>>
  /\ UNCHANGED guiVars

TokRoundTrip ==
  /\ tk_in.kind = "text"
  /\ ~tk_out.done
  /\ LET tok == solver.self.tokenizer
         n   == VocabSize(tok)
         e   == encode(tok, tk_in.text)
         ids == e.ids \o <<tok.eos_id>>
         d   == decode(tok, [p \in 1..Len(ids) |-> OneHot(n, ids[p])])
     IN  tk_out' = IF e.exc # "none"
                   THEN [done |-> TRUE, exc |-> e.exc, ret |-> NoneVal,
                         probs |-> <<>>, confidence |-> 0]
                   ELSE [done |-> TRUE, exc |-> d.exc,
                         ret |-> IF d.exc = "none" THEN ResultOf(d) ELSE NoneVal,
                         probs |-> d.probs, confidence |-> d.confidence]
  /\ UNCHANGED <<tk_in>>
  /\ UNCHANGED guiVars

TokNext ==
  \/ TokDecode
  \/ TokRoundTrip

SpecTok == TokInit /\ [][TokNext]_vars

(***************************************************************************)
(* solve_captcha on its own (lines 65-85): after main and the constructor, *)
(* a caller makes up to MaxCalls calls of solver.solve_captcha in a row,   *)
(* each with an image (0 is None) and the stage of the request that fails, *)
(* if any.  calls records what every call was given and what it gave back. *)
(***************************************************************************)
Call(img, fault, r) ==
  [img |-> img, fault |-> fault, ret |-> r.ret, raised |-> r.raised,
   escaped |-> r.escaped, ran |-> r.ran, probs |-> r.probs]

SolveCall(img, fault) ==
  /\ app = "running"
  /\ solver.bound
  /\ Len(calls) < MaxCalls
  /\ LET r == solve_captcha(solver.self, img, fault)
     IN  /\ calls' = Append(calls, Call(img, fault, r))
         /\ solver' = [solver EXCEPT !.self = SelfAfterSolve(solver.self, r)]
  /\ UNCHANGED <<app, artifact, solver_ready, ctor_exc, buttons, monitoring,
                 clipboard, threads, afterq, ui, selecting>>
  /\ UNCHANGED tokVars

SolveNext ==
  \/ Main
  \/ ArtifactLost
  \/ GuiInit
  \/ \E img \in 0..NImages, fault \in Faults : SolveCall(img, fault)

SpecSolve == Init /\ [][SolveNext]_vars

(***************************************************************************)
(* The auto-monitor on its own: the GUI is started and only the            *)
(* Auto-Monitor button, the clipboard, the polling threads, the callbacks  *)
(* they register and the window's close button are used, with up to        *)
(* MaxSessions starts of monitoring.                                       *)
(***************************************************************************)
ToggleMonitor == toggle_monitoring_within(MaxSessions)

MonNext ==
  \/ Main
  \/ ArtifactLost
  \/ GuiInit
  \/ \E v \in ClipValues : EnvCopy(v)
  \/ ToggleMonitor
  \/ \E t \in 1..Len(threads) : LoopCheck(t)
  \/ \E t \in 1..Len(threads) : LoopBody(t)
  \/ \E t \in 1..Len(threads) : LoopError(t)
  \/ RunCallback
  \/ \E fault \in Faults : SolveReturn(fault)
  \/ DialogClose
  \/ on_closing

SpecMon == Init /\ [][MonNext]_vars

(***************************************************************************)
(* Properties.                                                             *)
(***************************************************************************)
Constructed == app \in {"running", "closed"}
Calls == {calls[i] : i \in 1..Len(calls)}

(* C1: a failure raised inside a request, at any stage, makes              *)
(* solve_captcha return None and no exception leaves solve_captcha, for    *)
(* every input including None; a failure while the solver is constructed   *)
(* leaves the constructor as an exception.                                 *)
C1_RequestFailuresReturnNone ==
  /\ \A c \in Calls :
       /\ ~c.escaped
       /\ (c.fault # "none" \/ c.img = 0) => c.raised # "none"
       /\ c.raised # "none" => c.ret = NoneVal
  /\ (Constructed /\ artifact # "ok") => ctor_exc # "none"

C1_Witness ==
  /\ Len(calls) = 2
  /\ calls[1].fault = "run"
  /\ calls[1].ret = NoneVal
  /\ calls[2].fault = "decode"
  /\ calls[2].ret = NoneVal

(* C2: when the model artifact is missing, unreadable, invalid or cannot   *)
(* be loaded, the solver is not ready, the four triggers are disabled and  *)
(* no handler, polling thread or callback that could call solve_captcha    *)
(* exists; a solve_captcha call in progress runs on a solver whose         *)
(* existence check, load and structural check all succeeded.               *)
C2_NoSolveWithoutValidModel ==
  /\ (Constructed /\ artifact # "ok") =>
       /\ ~solver_ready
       /\ ~solver.bound
       /\ buttons = "disabled"
       /\ ~monitoring
       /\ threads = <<>>
       /\ afterq = <<>>
       /\ ui = <<>>
       /\ calls = <<>>
  /\ InFlight > 0 =>
       /\ artifact = "ok"
       /\ solver_ready
       /\ solver.bound
       /\ solver.self.exists_checked
       /\ solver.self.loaded
       /\ solver.self.checked

C2_Witness ==
  /\ app = "running"
  /\ artifact = "invalid"
  /\ ~solver_ready

(***************************************************************************)
(* The drawn logit matrix read as the claim reads it: the tokens of its    *)
(* rows, the position of the first END, and the probability softmax gives  *)
(* the single raised score of a row.                                       *)
(***************************************************************************)
DrawnToks == [p \in 1..Len(tk_in.rows) |-> tk_in.rows[p][1]]
DrawnEnd ==
  IF \E p \in 1..Len(tk_in.rows) : DrawnToks[p] = 0
  THEN CHOOSE p \in 1..Len(tk_in.rows) : DrawnToks[p] = 0 /\ \A q \in 1..(p - 1) : DrawnToks[q] # 0
  ELSE 0
PeakProb(hi) == (Pow2(hi) * Scale) \div (Pow2(hi) + Len(charset) + 2)
TruncationCase ==
  /\ tk_in.kind = "logits"
  /\ tk_out.done
  /\ DrawnEnd > 0
  /\ \A p \in 1..(DrawnEnd - 1) : DrawnToks[p] \in 1..Len(charset)

C5_EmptyResultIsNotFailure ==
  \A i \in 1..Len(ui) :
    (ui[i].pc = "dialog" /\ ui[i].solution = StrVal(<<>>)) =>
      ui[i].msg # FailMsg(ui[i].h)

(* C6: a string over the charset, encoded, followed by END, turned into    *)
(* one-hot rows of certainty 1 and decoded, comes back unchanged.          *)
C6_RoundTrip ==
  (tk_in.kind = "text" /\ tk_out.done) =>
    /\ tk_out.exc = "none"
    /\ tk_out.ret = StrVal(tk_in.text)

C6_Witness ==
  /\ tk_in.kind = "text"
  /\ tk_out.done
  /\ tk_in.text = <<"\\", "~">>
  /\ tk_out.ret = StrVal(<<"\\", "~">>)

(* C7: no character occurs at two positions of the charset the solver is   *)
(* constructed with.                                                       *)
C7_CharsetDistinct ==
  solver.bound =>
    \A i \in 1..Len(solver.self.charset) : \A j \in 1..Len(solver.self.charset) :
      solver.self.charset[i] = solver.self.charset[j] => i = j

(* C8: at most one solve_captcha call is in progress at any time, in every *)
(* interleaving of the manual triggers, the polling threads and the        *)
(* callbacks they register.                                                *)
C8_OneSolveAtATime == InFlight <= 1

C8_Witness ==
  /\ Len(ui) = 2
  /\ ui[1].h \in {"clip", "file", "screen"}
  /\ ui[2].h = "auto"
  /\ ui[2].pc = "solve"
  /\ \E t \in 1..Len(threads) : threads[t].pc = "body"

(* C9: whatever solve_captcha calls have run, failed or not, the solver    *)
(* holds the charset, img_size, tokenizer, transform and session the       *)
(* constructor set; a request without a failure gives what the constructed *)
(* pipeline gives for that image, and two requests with the same input     *)
(* give the same outcome whatever ran between them.                        *)
C9_SolverUnchangedBySolve ==
  /\ solver.bound => solver.self = Built
  /\ \A c \in Calls :
       c.raised = "none" => c.ret = StrVal(PipelineTable[c.img].text)
  /\ \A c \in Calls : \A d \in Calls :
       (c.img = d.img /\ c.fault = d.fault) => c.ret = d.ret

C9_Witness ==
  /\ Len(calls) = 2
  /\ calls[1].img = 1
  /\ calls[1].fault = "run"
  /\ calls[1].ret = NoneVal
  /\ calls[2].img = 1
  /\ calls[2].fault = "none"
  /\ calls[2].ret = StrVal(<<"a", "b">>)

(* C10: once monitoring is false no auto-solve is started: no step taken   *)
(* while the flag is false begins a solve_captcha call of                  *)
(* auto_solve_clipboard.                                                   *)
C10_NoAutoSolveAfterStop ==
  [][~monitoring =>
       ~(/\ Len(ui') = Len(ui) + 1
         /\ ui'[Len(ui')].h = "auto"
         /\ ui'[Len(ui')].pc = "solve")]_vars

(* C11: at most one monitor_loop thread is polling the clipboard at any    *)
(* time, whatever sequence of starts, stops and closes was made: no two    *)
(* threads are past the test of `while self.monitoring`, each in a pass of *)
(* its loop, together.                                                     *)
Polling == {t \in 1..Len(threads) : threads[t].pc = "body"}

C11_OnePollingLoop == Cardinality(Polling) <= 1

(* C12: every auto-solve the monitor loop scheduled processes the image    *)
(* that was detected as new when it was scheduled: when the UI thread runs *)
(* a registered callback, the argument auto_solve_clipboard gets is that   *)
(* image, never None and never a later reading of the clipboard.           *)
CallbackRuns ==
  /\ afterq # <<>>
  /\ afterq' = Tail(afterq)
  /\ Len(ui') = Len(ui) + 1
  /\ ui'[Len(ui')].h = "auto"

C12_SolvesDetectedImage ==
  [][CallbackRuns =>
       /\ ui'[Len(ui')].img # 0
       /\ ui'[Len(ui')].img = Head(afterq).detected]_vars
====
